---- MODULE Spec2Model ----
(***************************************************************************)
(* A model of the name_service program: the record header codec and the    *)
(* address derivation of state.rs, the instruction codec and the client    *)
(* instruction builders of instruction.rs, the error values of error.rs,   *)
(* and the request handlers (Create / Update / Transfer / Delete) that     *)
(* decode an instruction and act on a record's storage.                    *)
(*                                                                         *)
(* Bytes are integers 0..255, byte strings are sequences, a Pubkey is a    *)
(* sequence of 32 bytes.  An Option<T> is <<>> (None) or <<x>> (Some(x)).  *)
(* A Result is a record with field ok; a Rust panic is the outcome "Panic".*)
(***************************************************************************)
EXTENDS Integers, Sequences, FiniteSets, TLC

VARIABLES
    store,      \* ledger: record address -> the account's storage bytes
    created,    \* ghost: record address -> <<parent_name, class>> written by the last Create
    tx,         \* the transaction in flight: its instruction, the ledger before it, its result
    out         \* the result of the client-side call in progress (codec, derivation, builder)

vars == <<store, created, tx, out>>

(***************************************************************************)
(* Sizes.                                                                  *)
(***************************************************************************)
PubkeyLen == 32
HeaderLen == 96

\* Largest data region (bytes after the header) a Create of the model allocates;
\* Update offsets range up to it and payload lengths up to one past it.
MaxData == 2

Byte == 0..255

None == <<>>
Some(x) == <<x>>
IsSome(o) == o # <<>>

(***************************************************************************)
(* Pubkeys.  Key(k) is a concrete 32-byte address whose bytes differ by    *)
(* position, so that a codec that reorders bytes is visible.               *)
(***************************************************************************)
Key(k) == [i \in 1..PubkeyLen |-> (k * i) % 256]

\* Pubkey::default(): 32 zero bytes (also the System Program's id).
DefaultPubkey == [i \in 1..PubkeyLen |-> 0]

system_program_id == DefaultPubkey

Alice == Key(1)
Bob == Key(2)
ClassKey == Key(3)
ProgramId == Key(5)
Refund == Key(7)

Seqs(S, n) == UNION {[1..k -> S] : k \in 0..n}

(***************************************************************************)
(* state.rs: the record header and its codec.                              *)
(***************************************************************************)
\* struct NameRecordHeader { parent_name, owner, class }
NameRecordHeader(p, o, c) == [parent_name |-> p, owner |-> o, class |-> c]

\* A serialization that writes the owner before the parent name.
serialize_owner_first(h) == h.owner \o h.parent_name \o h.class

\* Borsh serialization of the struct: the fields in declaration order, each
\* Pubkey as its 32 raw bytes.
serialize(h) == h.parent_name \o h.owner \o h.class

\* Pack::pack_into_slice: a Cursor over dst receives the serialized header;
\* a dst shorter than the header makes the write fail and unwrap() panic.
\* Bytes of dst past the header are left as they were.
pack_into_slice(h, dst) ==
    IF Len(dst) < Len(serialize(h))
    THEN [panic |-> TRUE, dst |-> dst]
    ELSE [panic |-> FALSE,
          dst |-> [i \in 1..Len(dst) |->
                     IF i <= Len(serialize(h)) THEN serialize(h)[i] ELSE dst[i]]]

\* Pack::unpack_from_slice: NameRecordHeader::try_from_slice(src), which fails
\* on a short input and also when bytes remain after the three fields;
\* any failure is mapped to ProgramError::InvalidAccountData.
unpack_from_slice(src) ==
    IF Len(src) # 3 * PubkeyLen
    THEN [ok |-> FALSE, err |-> "InvalidAccountData"]
    ELSE [ok |-> TRUE,
          header |-> NameRecordHeader(SubSeq(src, 1, PubkeyLen),
                                      SubSeq(src, PubkeyLen + 1, 2 * PubkeyLen),
                                      SubSeq(src, 2 * PubkeyLen + 1, 3 * PubkeyLen))]

\* An initialization test that looks at the class instead of the owner.
is_initialized_by_class(h) == h.class # DefaultPubkey

\* IsInitialized::is_initialized
is_initialized(h) == h.owner # DefaultPubkey

\* A write that ignores the offset and copies to the start of the account.
write_data_from_start(account_data, input, offset) ==
    IF Len(input) > Len(account_data)
    THEN [panic |-> TRUE, data |-> account_data]
    ELSE [panic |-> FALSE,
          data |-> [i \in 1..Len(account_data) |->
                      IF i <= Len(input) THEN input[i] ELSE account_data[i]]]

\* write_data: account_data[offset..offset + input.len()].copy_from_slice(input).
\* The slice index panics when the range ends past the account's data; there
\* is no other check and no error value is returned.
write_data(account_data, input, offset) ==
    IF offset + Len(input) > Len(account_data)
    THEN [panic |-> TRUE, data |-> account_data]
    ELSE [panic |-> FALSE,
          data |-> [i \in 1..Len(account_data) |->
                      IF i > offset /\ i <= offset + Len(input)
                      THEN input[i - offset] ELSE account_data[i]]]

(***************************************************************************)
(* state.rs: address derivation.  Pubkey::find_program_address is the      *)
(* ledger's library: SHA-256 over the seeds, the bump, the program id and  *)
(* a marker, retried with bump 255, 254, ... 1 until the digest is not a   *)
(* point of the curve.  The digest is abstracted by a small deterministic  *)
(* hash of the same bytes.                                                 *)
(***************************************************************************)
\* The digest of bytes[lo..hi].
RECURSIVE DigestRange(_, _, _)
DigestRange(bytes, lo, hi) ==
    IF lo > hi THEN 7
    ELSE IF lo = hi THEN bytes[lo] + 11
    ELSE LET mid == (lo + hi) \div 2
         IN  (DigestRange(bytes, lo, mid) * 31 + DigestRange(bytes, mid + 1, hi) * 17
                + (hi - lo)) % 65521

Digest(bytes) == DigestRange(bytes, 1, Len(bytes))

RECURSIVE Concat(_)
Concat(seqs) == IF seqs = <<>> THEN <<>> ELSE Head(seqs) \o Concat(Tail(seqs))

OnCurve(d) == (d % 2) = 0

KeyOfDigest(d) == [i \in 1..PubkeyLen |-> (d + i * (1 + (d % 7))) % 256]

MAX_SEEDS == 16

create_program_address(seeds, program_id) ==
    IF Len(seeds) > MAX_SEEDS \/ \E i \in 1..Len(seeds) : Len(seeds[i]) > PubkeyLen
    THEN [ok |-> FALSE, err |-> "MaxSeedLengthExceeded"]
    ELSE LET d == Digest(Concat(seeds) \o program_id)
         IN  IF OnCurve(d) THEN [ok |-> FALSE, err |-> "InvalidSeeds"]
             ELSE [ok |-> TRUE, key |-> KeyOfDigest(d)]

RECURSIVE try_bump(_, _, _)
try_bump(seeds, program_id, bump) ==
    IF bump = 0 THEN [panic |-> TRUE]
    ELSE LET r == create_program_address(Append(seeds, <<bump>>), program_id)
         IN  IF r.ok THEN [panic |-> FALSE, key |-> r.key, bump |-> bump]
             ELSE IF r.err = "InvalidSeeds" THEN try_bump(seeds, program_id, bump - 1)
             ELSE [panic |-> TRUE]

find_program_address(seeds, program_id) == try_bump(seeds, program_id, 255)

\* slice::chunks(32): consecutive pieces of 32 bytes, the last one shorter.
RECURSIVE chunks(_)
chunks(s) ==
    IF s = <<>> THEN <<>>
    ELSE IF Len(s) <= PubkeyLen THEN <<s>>
    ELSE <<SubSeq(s, 1, PubkeyLen)>> \o chunks(SubSeq(s, PubkeyLen + 1, Len(s)))

\* Option::cloned().unwrap_or_default()
unwrap_or_default(opt) == IF IsSome(opt) THEN opt[1] ELSE DefaultPubkey

\* A derivation that puts the parent before the class in the seeds.
get_seeds_and_key_parent_first(program_id, hashed_name, name_class_opt, parent_name_address_opt) ==
    LET name_class == unwrap_or_default(name_class_opt)
        parent_name_address == unwrap_or_default(parent_name_address_opt)
        seeds_vec == hashed_name \o parent_name_address \o name_class
        found == find_program_address(chunks(seeds_vec), program_id)
    IN  IF found.panic THEN [panic |-> TRUE]
        ELSE [panic |-> FALSE, key |-> found.key, seeds |-> Append(seeds_vec, found.bump)]

get_seeds_and_key(program_id, hashed_name, name_class_opt, parent_name_address_opt) ==
    LET name_class == unwrap_or_default(name_class_opt)
        parent_name_address == unwrap_or_default(parent_name_address_opt)
        seeds_vec == hashed_name \o name_class \o parent_name_address
        found == find_program_address(chunks(seeds_vec), program_id)
    IN  IF found.panic THEN [panic |-> TRUE]
        ELSE [panic |-> FALSE, key |-> found.key, seeds |-> Append(seeds_vec, found.bump)]

(***************************************************************************)
(* error.rs                                                                *)
(***************************************************************************)
\* NameServiceError::OutOfSpace = 0, converted to ProgramError::Custom(0).
OutOfSpace == "Custom(0)"

(***************************************************************************)
(* instruction.rs: the four operations and their Borsh wire encoding.      *)
(* An enum is its variant index as one byte followed by the fields in      *)
(* order; u32 and u64 are little-endian; a Vec<u8> is a u32 length and the *)
(* bytes; a Pubkey is its 32 bytes.                                        *)
(***************************************************************************)
Create(hashed_name, lamports, space) ==
    [tag |-> "Create", hashed_name |-> hashed_name, lamports |-> lamports, space |-> space]
Update(offset, data) == [tag |-> "Update", offset |-> offset, data |-> data]
Transfer(new_owner) == [tag |-> "Transfer", new_owner |-> new_owner]
Delete == [tag |-> "Delete"]

\* Variant indices with Update and Transfer exchanged.
VariantIndex_swapped(op) ==
    CASE op.tag = "Create" -> 0
      [] op.tag = "Update" -> 2
      [] op.tag = "Transfer" -> 1
      [] op.tag = "Delete" -> 3

\* The variant index of each operation, in declaration order.
VariantIndex(op) ==
    CASE op.tag = "Create" -> 0
      [] op.tag = "Update" -> 1
      [] op.tag = "Transfer" -> 2
      [] op.tag = "Delete" -> 3

\* to_le_bytes of an unsigned integer of w bytes
RECURSIVE to_le_bytes(_, _)
to_le_bytes(n, w) ==
    IF w = 0 THEN <<>> ELSE <<n % 256>> \o to_le_bytes(n \div 256, w - 1)

RECURSIVE from_le_bytes(_)
from_le_bytes(b) ==
    IF b = <<>> THEN 0 ELSE b[1] + 256 * from_le_bytes(Tail(b))

serialize_vec(v) == to_le_bytes(Len(v), 4) \o v

\* BorshSerialize::try_to_vec of a NameRegistryInstruction
try_to_vec(op) ==
    <<VariantIndex(op)>> \o
    (CASE op.tag = "Create" ->
            serialize_vec(op.hashed_name) \o to_le_bytes(op.lamports, 8)
                \o to_le_bytes(op.space, 4)
       [] op.tag = "Update" -> to_le_bytes(op.offset, 4) \o serialize_vec(op.data)
       [] op.tag = "Transfer" -> op.new_owner
       [] op.tag = "Delete" -> <<>>)

\* Readers: each takes the unread bytes and returns the value and the rest.
read_int(buf, w) ==
    IF Len(buf) < w THEN [ok |-> FALSE]
    ELSE [ok |-> TRUE, val |-> from_le_bytes(SubSeq(buf, 1, w)),
          rest |-> SubSeq(buf, w + 1, Len(buf))]

read_bytes(buf, n) ==
    IF Len(buf) < n THEN [ok |-> FALSE]
    ELSE [ok |-> TRUE, val |-> SubSeq(buf, 1, n), rest |-> SubSeq(buf, n + 1, Len(buf))]

read_vec(buf) ==
    LET n == read_int(buf, 4)
    IN  IF ~n.ok THEN [ok |-> FALSE] ELSE read_bytes(n.rest, n.val)

\* BorshDeserialize::deserialize of a NameRegistryInstruction: the variant
\* index selects the fields to read; an index that is no variant is an error.
deserialize(buf) ==
    IF buf = <<>> THEN [ok |-> FALSE]
    ELSE LET body == Tail(buf) IN
      CASE buf[1] = 0 ->
             LET h == read_vec(body) IN
             IF ~h.ok THEN [ok |-> FALSE] ELSE
             LET l == read_int(h.rest, 8) IN
             IF ~l.ok THEN [ok |-> FALSE] ELSE
             LET sp == read_int(l.rest, 4) IN
             IF ~sp.ok THEN [ok |-> FALSE]
             ELSE [ok |-> TRUE, op |-> Create(h.val, l.val, sp.val), rest |-> sp.rest]
        [] buf[1] = 1 ->
             LET o == read_int(body, 4) IN
             IF ~o.ok THEN [ok |-> FALSE] ELSE
             LET d == read_vec(o.rest) IN
             IF ~d.ok THEN [ok |-> FALSE]
             ELSE [ok |-> TRUE, op |-> Update(o.val, d.val), rest |-> d.rest]
        [] buf[1] = 2 ->
             LET k == read_bytes(body, PubkeyLen) IN
             IF ~k.ok THEN [ok |-> FALSE]
             ELSE [ok |-> TRUE, op |-> Transfer(k.val), rest |-> k.rest]
        [] buf[1] = 3 -> [ok |-> TRUE, op |-> Delete, rest |-> body]
        [] OTHER -> [ok |-> FALSE]

\* BorshDeserialize::try_from_slice: deserialize, and fail when bytes remain.
try_from_slice(buf) ==
    LET r == deserialize(buf)
    IN  IF r.ok /\ r.rest = <<>> THEN [ok |-> TRUE, op |-> r.op]
        ELSE [ok |-> FALSE, err |-> "DecodeError"]

(***************************************************************************)
(* instruction.rs: the client builders.                                    *)
(***************************************************************************)
AccountMeta(pubkey, is_signer, is_writable) ==
    [pubkey |-> pubkey, is_signer |-> is_signer, is_writable |-> is_writable]
\* AccountMeta::new (writable) and AccountMeta::new_readonly
AccountMeta_new(pubkey, is_signer) == AccountMeta(pubkey, is_signer, TRUE)
AccountMeta_new_readonly(pubkey, is_signer) == AccountMeta(pubkey, is_signer, FALSE)

Instruction(program_id, accounts, data) ==
    [program_id |-> program_id, accounts |-> accounts, data |-> data]

Ok(ix) == [ok |-> TRUE, ix |-> ix]

create(name_service_program_id, instruction_data, name_account_key, name_owner, payer_key, name_class_opt, name_parent_opt, name_parent_owner_opt) ==
    LET data == try_to_vec(instruction_data)
        base == << AccountMeta_new_readonly(system_program_id, FALSE),
                   AccountMeta_new(payer_key, TRUE),
                   AccountMeta_new(name_account_key, TRUE),
                   AccountMeta_new_readonly(name_owner, FALSE) >>
        class == IF IsSome(name_class_opt)
                 THEN AccountMeta_new_readonly(name_class_opt[1], TRUE)
                 ELSE AccountMeta_new_readonly(DefaultPubkey, FALSE)
        parent == IF IsSome(name_parent_opt)
                  THEN AccountMeta_new_readonly(name_parent_opt[1], FALSE)
                  ELSE AccountMeta_new_readonly(DefaultPubkey, FALSE)
        parent_owner == IF IsSome(name_parent_owner_opt)
                        THEN AccountMeta_new_readonly(name_parent_owner_opt[1], TRUE)
                        ELSE AccountMeta_new_readonly(DefaultPubkey, FALSE)
    IN  Ok(Instruction(name_service_program_id,
                       base \o <<class, parent, parent_owner>>, data))

update(name_service_program_id, offset, data, name_account_key, name_update_signer, name_parent_opt) ==
    LET bytes == try_to_vec(Update(offset, data))
        base == << AccountMeta_new(name_account_key, FALSE),
                   AccountMeta_new(name_update_signer, TRUE) >>
        accounts == IF IsSome(name_parent_opt)
                    THEN Append(base, AccountMeta_new_readonly(name_parent_opt[1], FALSE))
                    ELSE base
    IN  Ok(Instruction(name_service_program_id, accounts, bytes))

transfer(name_service_program_id, name_owner, name_account_key, name_owner_key, name_parent) ==
    LET data == try_to_vec(Transfer(name_owner))
        base == << AccountMeta_new(name_account_key, FALSE),
                   AccountMeta_new_readonly(name_owner_key, TRUE) >>
        accounts == IF IsSome(name_parent)
                    THEN Append(base, AccountMeta_new_readonly(name_parent[1], FALSE))
                    ELSE base
    IN  Ok(Instruction(name_service_program_id, accounts, data))

delete(name_service_program_id, name_account_key, name_owner_key, refund_target) ==
    LET data == try_to_vec(Delete)
        accounts == << AccountMeta_new(name_account_key, FALSE),
                       AccountMeta_new_readonly(name_owner_key, TRUE),
                       AccountMeta_new(refund_target, FALSE) >>
    IN  Ok(Instruction(name_service_program_id, accounts, data))

(***************************************************************************)
(* The ledger of the model: two record addresses, both derived by          *)
(* get_seeds_and_key.  TopKey is a top-level name without class; ChildKey  *)
(* is a name of class ClassKey under TopKey.                               *)
(***************************************************************************)
Name1 == Key(11)
Name2 == Key(13)
HashedNames == {Name1, Name2}

TopKey == get_seeds_and_key(ProgramId, Name1, None, None).key
ChildKey == get_seeds_and_key(ProgramId, Name2, Some(ClassKey), Some(TopKey)).key
Slots == {TopKey, ChildKey}

\* The keys that can sign a transaction.
People == {Alice, Bob, ClassKey}

Zeros(n) == [i \in 1..n |-> 0]
Fill(n, b) == [i \in 1..n |-> b]

\* The accounts of an instruction that carry a verified authorization proof.
signers(ix) == {ix.accounts[i].pubkey : i \in {j \in 1..Len(ix.accounts) : ix.accounts[j].is_signer}}

\* The header at the front of a record's storage, decoded.
load_header(storage) ==
    IF Len(storage) < HeaderLen THEN [ok |-> FALSE, err |-> "InvalidAccountData"]
    ELSE unpack_from_slice(SubSeq(storage, 1, HeaderLen))

\* The stored owner of the record at address key, if it is an active record.
stored_owner(st, key) ==
    IF key \notin DOMAIN st THEN None
    ELSE LET h == load_header(st[key])
         IN  IF h.ok /\ is_initialized(h.header) THEN Some(h.header.owner) ELSE None

Outcome(result, st, cr) == [result |-> result, store |-> st, created |-> cr]
Reject(result, st, cr) == Outcome(result, st, cr)

(***************************************************************************)
(* The handlers.  Each validates first and applies its effect last, so a   *)
(* rejected request leaves the ledger as it was.  Balance accounting       *)
(* (deposit, refund) is the host ledger's and is not part of the state.    *)
(***************************************************************************)
\* Create.  Accounts: 1 system program, 2 funding, 3 name record, 4 owner,
\* 5 class, 6 parent record, 7 parent owner; an absent optional account is
\* the default address.
process_create(st, cr, ix, op) ==
    LET a == ix.accounts
        name == a[3].pubkey
        class_opt == IF a[5].pubkey = DefaultPubkey THEN None ELSE Some(a[5].pubkey)
        parent_opt == IF a[6].pubkey = DefaultPubkey THEN None ELSE Some(a[6].pubkey)
        parent_owner == IF IsSome(parent_opt) THEN stored_owner(st, parent_opt[1]) ELSE None
        derived == get_seeds_and_key(ix.program_id, op.hashed_name, class_opt, parent_opt)
        header == NameRecordHeader(unwrap_or_default(parent_opt), a[4].pubkey,
                                   unwrap_or_default(class_opt))
        packed == pack_into_slice(header, Zeros(HeaderLen + op.space))
    IN  IF ~a[2].is_signer THEN Reject("Unauthorized", st, cr)
        ELSE IF IsSome(class_opt) /\ ~a[5].is_signer THEN Reject("Unauthorized", st, cr)
        ELSE IF IsSome(parent_opt)
                /\ ~(IsSome(parent_owner) /\ a[7].is_signer /\ a[7].pubkey = parent_owner[1])
             THEN Reject("Unauthorized", st, cr)
        ELSE IF derived.panic THEN Reject("Panic", st, cr)
        ELSE IF derived.key # name THEN Reject("AddressMismatch", st, cr)
        ELSE IF IsSome(stored_owner(st, name)) THEN Reject("AccountAlreadyInUse", st, cr)
        ELSE IF packed.panic THEN Reject("Panic", st, cr)
        ELSE Outcome("Ok", [st EXCEPT ![name] = packed.dst],
                     [cr EXCEPT ![name] = Some(<<header.parent_name, header.class>>)])

\* Update.  Accounts: 1 name record, 2.. the accounts offering proofs,
\* 3 the parent record when the parent's owner authorizes.
update_parent_opt(ix) == IF Len(ix.accounts) >= 3 THEN Some(ix.accounts[3].pubkey) ELSE None

update_by_owner(h, ix) == h.owner \in signers(ix)
update_by_class(h, ix) == h.class # DefaultPubkey /\ h.class \in signers(ix)
update_by_parent_owner(st, h, ix) ==
    /\ IsSome(update_parent_opt(ix))
    /\ update_parent_opt(ix)[1] = h.parent_name
    /\ IsSome(stored_owner(st, h.parent_name))
    /\ stored_owner(st, h.parent_name)[1] \in signers(ix)

process_update(st, cr, ix, op) ==
    LET name == ix.accounts[1].pubkey
        h == load_header(st[name])
        written == write_data(st[name], op.data, HeaderLen + op.offset)
    IN  IF ~h.ok THEN Reject("InvalidHeader", st, cr)
        ELSE IF ~(update_by_owner(h.header, ix) \/ update_by_class(h.header, ix))
                /\ IsSome(update_parent_opt(ix))
                /\ update_parent_opt(ix)[1] # h.header.parent_name
             THEN Reject("AccountMismatch", st, cr)
        ELSE IF ~(\/ update_by_owner(h.header, ix)
                  \/ update_by_class(h.header, ix)
                  \/ update_by_parent_owner(st, h.header, ix))
             THEN Reject("Unauthorized", st, cr)
        ELSE IF written.panic THEN Reject("Panic", st, cr)
        ELSE Outcome("Ok", [st EXCEPT ![name] = written.data], cr)

\* Transfer.  Accounts: 1 name record, 2 owner, then either 3 class, or
\* 3 parent owner and 4 parent record.
transfer_parent_opt(ix) == IF Len(ix.accounts) >= 4 THEN Some(ix.accounts[4].pubkey) ELSE None

process_transfer(st, cr, ix, op) ==
    LET name == ix.accounts[1].pubkey
        h == load_header(st[name])
        packed == pack_into_slice([h.header EXCEPT !.owner = op.new_owner], st[name])
    IN  IF ~h.ok THEN Reject("InvalidHeader", st, cr)
        ELSE IF h.header.owner \notin signers(ix) THEN Reject("Unauthorized", st, cr)
        ELSE IF h.header.class # DefaultPubkey /\ h.header.class \notin signers(ix)
             THEN Reject("Unauthorized", st, cr)
        ELSE IF IsSome(transfer_parent_opt(ix))
                /\ transfer_parent_opt(ix)[1] # h.header.parent_name
             THEN Reject("AccountMismatch", st, cr)
        ELSE IF packed.panic THEN Reject("Panic", st, cr)
        ELSE Outcome("Ok", [st EXCEPT ![name] = packed.dst], cr)

\* A Delete that does not ask for the owner's proof.
process_delete_unchecked(st, cr, ix) ==
    LET name == ix.accounts[1].pubkey
        h == load_header(st[name])
        zeroed == write_data(st[name], Zeros(Len(st[name])), 0)
    IN  IF ~h.ok THEN Reject("InvalidHeader", st, cr)
        ELSE IF zeroed.panic THEN Reject("Panic", st, cr)
        ELSE Outcome("Ok", [st EXCEPT ![name] = zeroed.data], cr)

\* Delete.  Accounts: 1 name record, 2 owner, 3 refund target.
process_delete(st, cr, ix) ==
    LET name == ix.accounts[1].pubkey
        h == load_header(st[name])
        zeroed == write_data(st[name], Zeros(Len(st[name])), 0)
    IN  IF ~h.ok THEN Reject("InvalidHeader", st, cr)
        ELSE IF h.header.owner \notin signers(ix) THEN Reject("Unauthorized", st, cr)
        ELSE IF zeroed.panic THEN Reject("Panic", st, cr)
        ELSE Outcome("Ok", [st EXCEPT ![name] = zeroed.data], cr)

\* The entry point: decode the instruction data and dispatch.
process_instruction(st, cr, ix) ==
    LET d == try_from_slice(ix.data)
    IN  IF ~d.ok THEN Reject("InvalidInstructionData", st, cr)
        ELSE CASE d.op.tag = "Create" -> process_create(st, cr, ix, d.op)
               [] d.op.tag = "Update" -> process_update(st, cr, ix, d.op)
               [] d.op.tag = "Transfer" -> process_transfer(st, cr, ix, d.op)
               [] d.op.tag = "Delete" -> process_delete(st, cr, ix)

(***************************************************************************)
(* The ledger state machine.  A request (an instruction built by a client  *)
(* builder, or put together by hand with any signer flags) is handled by   *)
(* the program as one atomic step; its result is then returned.            *)
(***************************************************************************)
Payer == Key(9)
Deposit == 1000000

Idle == [phase |-> "idle"]
NoCall == [call |-> "none"]

set_signer(ix, i, b) == [ix EXCEPT !.accounts[i].is_signer = b]
with_accounts(ix, more) == [ix EXCEPT !.accounts = @ \o more]

Payload(n) == [i \in 1..n |-> 7]

\* The program handles an instruction: the whole handler is one step.
Process(request, via) ==
    /\ tx.phase = "idle"
    /\ \E ix \in {request} :
       \E d \in {try_from_slice(ix.data)} :
       \E r \in {process_instruction(store, created, ix)} :
           /\ store' = r.store
           /\ created' = r.created
           /\ tx' = [phase |-> "done", ix |-> ix, via |-> via,
                     op |-> IF d.ok THEN d.op.tag ELSE "Undecodable",
                     pre |-> store, result |-> r.result]
    /\ UNCHANGED out

ClassOpts == {None, Some(ClassKey)}
ParentOpts == {None, Some(TopKey)}
Owners == {Alice, Bob}

\* The (hashed name, class, parent) triples a Create of the model names: the
\* two that derive TopKey and ChildKey, and two that derive neither.
Triples ==
    { <<Name1, None, None>>, <<Name2, Some(ClassKey), Some(TopKey)>>,
      <<Name2, None, Some(TopKey)>>, <<Name1, Some(ClassKey), None>> }

CreateRequest ==
    /\ tx.phase = "idle"
    /\ \E name \in Slots, t \in Triples, po \in {None, Some(Alice), Some(Bob)},
          owner \in Owners, space \in {0, MaxData} :
           Process(create(ProgramId, Create(t[1], Deposit, space), name, owner, Payer,
                          t[2], t[3], po).ix,
                   "builder")

\* A Create whose funding, class or parent-owner account carries no proof.
CreateUnsignedRequest ==
    /\ tx.phase = "idle"
    /\ \E name \in Slots, t \in Triples, po \in {None, Some(Alice)}, i \in {2, 5, 7} :
        /\ get_seeds_and_key(ProgramId, t[1], t[2], t[3]).key = name
        /\ Process(set_signer(create(ProgramId, Create(t[1], Deposit, MaxData), name, Alice,
                                     Payer, t[2], t[3], po).ix, i, FALSE),
                   "hand")

UpdateRequest ==
    /\ tx.phase = "idle"
    /\ \E name \in Slots, offset \in 0..MaxData, n \in 1..(MaxData + 1),
          k \in People, p \in ParentOpts :
           Process(update(ProgramId, offset, Payload(n), name, k, p).ix, "builder")

\* An Update whose second account carries no proof.
UpdateUnsignedRequest ==
    /\ tx.phase = "idle"
    /\ \E name \in Slots, k \in People, p \in ParentOpts :
           Process(set_signer(update(ProgramId, 0, Payload(1), name, k, p).ix, 2, FALSE), "hand")

TransferRequest ==
    /\ tx.phase = "idle"
    /\ \E name \in Slots, new_owner \in Owners, k \in People, p \in ParentOpts :
           Process(transfer(ProgramId, new_owner, name, k, p).ix, "builder")

\* A Transfer in the documented account layouts: owner alone, owner and
\* class, or owner, parent owner and parent record; with any signer flags.
TransferExtras ==
    {<<>>}
    \cup {<<AccountMeta_new_readonly(ClassKey, s)>> : s \in BOOLEAN}
    \cup {<<AccountMeta_new_readonly(Alice, FALSE), AccountMeta_new_readonly(p, FALSE)>> :
            p \in Slots}

TransferByHandRequest ==
    /\ tx.phase = "idle"
    /\ \E name \in Slots, new_owner \in {Bob}, k \in People, s \in BOOLEAN,
          more \in TransferExtras :
           Process(with_accounts(set_signer(transfer(ProgramId, new_owner, name, k, None).ix,
                                            2, s), more),
                   "hand")

DeleteRequest ==
    /\ tx.phase = "idle"
    /\ \E name \in Slots, k \in People, signed \in BOOLEAN :
           Process(set_signer(delete(ProgramId, name, k, Refund).ix, 2, signed),
                   IF signed THEN "builder" ELSE "hand")

\* Instruction data that is not the encoding of an operation.
UndecodableRequest ==
    /\ tx.phase = "idle"
    /\ \E name \in Slots, data \in {<<>>, <<4>>, <<3, 0>>} :
           Process(Instruction(ProgramId,
                               <<AccountMeta_new(name, FALSE), AccountMeta_new_readonly(Alice, TRUE)>>,
                               data),
                   "hand")

\* The result is returned to the submitter.
Complete ==
    /\ tx.phase = "done"
    /\ tx' = Idle
    /\ UNCHANGED <<store, created, out>>

Init ==
    /\ store = [k \in Slots |-> <<>>]
    /\ created = [k \in Slots |-> None]
    /\ tx = Idle
    /\ out = NoCall

Next ==
    \/ CreateRequest
    \/ CreateUnsignedRequest
    \/ UpdateRequest
    \/ UpdateUnsignedRequest
    \/ TransferRequest
    \/ TransferByHandRequest
    \/ DeleteRequest
    \/ UndecodableRequest
    \/ Complete

Spec == Init /\ [][Next]_vars

(***************************************************************************)
(* The client side: a caller packs a header, derives an address, encodes   *)
(* or decodes an operation, or builds an instruction, and takes the        *)
(* result.  These calls touch no ledger state.                             *)
(***************************************************************************)
Addresses == {DefaultPubkey, Alice, Bob, ClassKey}
Headers == {NameRecordHeader(p, o, c) : p \in {DefaultPubkey, TopKey}, o \in Addresses, c \in Addresses}

OptKeys == {None, Some(DefaultPubkey), Some(ClassKey)}
DeriveNames == {Name1, <<1, 2, 3>>}

Operations ==
    {Create(hn, l, sp) : hn \in {<<>>, <<1, 2, 3>>, Name1},
                         l \in {0, 1, 256, 16777221, 2147483647},
                         sp \in {0, 1, 1000, 70000}}
    \cup {Update(o, d) : o \in {0, 1, 258, 2147483647}, d \in {<<>>, <<7>>, <<0, 255, 3>>}}
    \cup {Transfer(k) : k \in Addresses}
    \cup {Delete}

\* Bytes that start with a tag no variant has.
UnknownTagInputs ==
    {<<t>> \o body : t \in {4, 5, 127, 255},
                     body \in {<<>>, Alice, Tail(try_to_vec(Update(1, <<7>>)))}}

Call(result) ==
    /\ out.call = "none"
    /\ out' = result
    /\ UNCHANGED <<store, created, tx>>

\* pack_into_slice into a buffer of dst_len bytes of 9, then unpack_from_slice
\* of the first 96 bytes written.
PackHeader ==
    /\ out.call = "none"
    /\ \E h \in Headers, dst_len \in {HeaderLen - 1, HeaderLen, HeaderLen + 1} :
       \E packed \in {pack_into_slice(h, Fill(dst_len, 9))} :
           Call([call |-> "pack", h |-> h, dst_len |-> dst_len, packed |-> packed,
                 unpacked |-> IF packed.panic THEN [ok |-> FALSE, err |-> "Panic"]
                              ELSE unpack_from_slice(SubSeq(packed.dst, 1, HeaderLen))])

\* unpack_from_slice of a whole buffer of any length
UnpackBuffer ==
    /\ out.call = "none"
    /\ \E h \in Headers, extra \in {<<>>, <<9>>} :
           Call([call |-> "unpack", h |-> h, src |-> serialize(h) \o extra,
                 unpacked |-> unpack_from_slice(serialize(h) \o extra)])

\* get_seeds_and_key; the result of the call before it is kept beside it.
Derive ==
    /\ out.call \in {"none", "derive"}
    /\ \E hn \in DeriveNames, c \in OptKeys, p \in OptKeys :
        out' = [call |-> "derive", args |-> <<hn, c, p>>,
                r |-> get_seeds_and_key(ProgramId, hn, c, p),
                prev |-> IF out.call = "derive" THEN Some([args |-> out.args, r |-> out.r])
                         ELSE None]
    /\ UNCHANGED <<store, created, tx>>

EncodeDecode ==
    /\ out.call = "none"
    /\ \E op \in Operations :
       \E bytes \in {try_to_vec(op)} :
           Call([call |-> "codec", op |-> op, bytes |-> bytes, decoded |-> try_from_slice(bytes)])

DecodeUnknownTag ==
    /\ out.call = "none"
    /\ \E bytes \in UnknownTagInputs :
           Call([call |-> "decode", bytes |-> bytes, decoded |-> try_from_slice(bytes)])

BuildCreate ==
    /\ out.call = "none"
    /\ \E c \in ClassOpts, p \in ParentOpts, po \in {None, Some(Alice)}, space \in 0..MaxData :
           Call([call |-> "create", name |-> ChildKey, class_opt |-> c, parent_opt |-> p,
                 parent_owner_opt |-> po, payer |-> Payer,
                 r |-> create(ProgramId, Create(Name2, Deposit, space), ChildKey, Bob, Payer,
                              c, p, po)])

BuildUpdate ==
    /\ out.call = "none"
    /\ \E offset \in 0..MaxData, n \in 0..MaxData, k \in People, p \in ParentOpts :
           Call([call |-> "update", name |-> ChildKey, offset |-> offset, data |-> Payload(n),
                 r |-> update(ProgramId, offset, Payload(n), ChildKey, k, p)])

BuildTransfer ==
    /\ out.call = "none"
    /\ \E new_owner \in Owners, k \in People, p \in ParentOpts :
           Call([call |-> "transfer", name |-> ChildKey,
                 r |-> transfer(ProgramId, new_owner, ChildKey, k, p)])

BuildDelete ==
    /\ out.call = "none"
    /\ \E name \in Slots, k \in People :
           Call([call |-> "delete", name |-> name, r |-> delete(ProgramId, name, k, Refund)])

\* The caller takes the result.
Return ==
    /\ out.call # "none"
    /\ out' = NoCall
    /\ UNCHANGED <<store, created, tx>>

ClientNext ==
    \/ PackHeader
    \/ UnpackBuffer
    \/ Derive
    \/ EncodeDecode
    \/ DecodeUnknownTag
    \/ BuildCreate
    \/ BuildUpdate
    \/ BuildTransfer
    \/ BuildDelete
    \/ Return

ClientSpec == Init /\ [][ClientNext]_vars

(***************************************************************************)
(* Properties.  The header fields of a record are read from its storage    *)
(* by their documented byte ranges: parent_name 0..32, owner 32..64,       *)
(* class 64..96, data from 96.                                             *)
(***************************************************************************)
ParentField(storage) == SubSeq(storage, 1, 32)
OwnerField(storage) == SubSeq(storage, 33, 64)
ClassField(storage) == SubSeq(storage, 65, 96)
HoldsHeader(storage) == Len(storage) >= 96

Done(ops) == tx.phase = "done" /\ tx.op \in ops
Target == tx.ix.accounts[1].pubkey
Before == tx.pre[Target]
After == store[Target]
Request == try_from_slice(tx.ix.data).op

\* Some account of the request with address k carries a proof.
ProofFrom(k) ==
    \E i \in 1..Len(tx.ix.accounts) : tx.ix.accounts[i].pubkey = k /\ tx.ix.accounts[i].is_signer

OwnerProof == ProofFrom(OwnerField(Before))
ClassProof == ClassField(Before) # DefaultPubkey /\ ProofFrom(ClassField(Before))
\* Update's third account is the parent record.
ParentSupplied == Len(tx.ix.accounts) >= 3
ParentMatches == ParentSupplied /\ tx.ix.accounts[3].pubkey = ParentField(Before)
ParentOwnerProof ==
    /\ ParentMatches
    /\ ParentField(Before) \in Slots
    /\ HoldsHeader(tx.pre[ParentField(Before)])
    /\ OwnerField(tx.pre[ParentField(Before)]) # DefaultPubkey
    /\ ProofFrom(OwnerField(tx.pre[ParentField(Before)]))

\* None of the operation's authorization cases is satisfied.
NoAuthorizationCase ==
    /\ ~OwnerProof
    /\ tx.op = "Update" => ~ClassProof /\ ~ParentOwnerProof

OnRecord(ops) == Done(ops) /\ HoldsHeader(Before)

Authorized == OwnerProof \/ (tx.op = "Update" /\ (ClassProof \/ ParentOwnerProof))

\* C2 as stated, for the requests that pass authorization: an Update with
\* offset + len(data) greater than the length of the data region is rejected
\* with the OutOfSpace error value and the storage is unchanged.
C2_OutOfSpace ==
    /\ OnRecord({"Update"}) /\ Authorized
    /\ Request.offset + Len(Request.data) > Len(Before) - HeaderLen
    => tx.result = OutOfSpace /\ store = tx.pre

\* C3: the header fields parent_name and class of an active record equal the
\* values written at Create; a successful Update changes only the bytes
\* 96 + offset .. 96 + offset + len(data) of the record, which become data;
\* a successful Transfer changes only the owner field, which becomes new_owner.
C3_HeaderImmutable ==
    /\ \A k \in Slots :
          HoldsHeader(store[k]) /\ OwnerField(store[k]) # DefaultPubkey
              => /\ IsSome(created[k])
                 /\ ParentField(store[k]) = created[k][1][1]
                 /\ ClassField(store[k]) = created[k][1][2]
    /\ Done({"Update"}) /\ tx.result = "Ok"
          => /\ Len(After) = Len(Before)
             /\ \A i \in 1..Len(After) :
                   IF i > 96 + Request.offset /\ i <= 96 + Request.offset + Len(Request.data)
                   THEN After[i] = Request.data[i - 96 - Request.offset]
                   ELSE After[i] = Before[i]
             /\ \A k \in Slots \ {Target} : store[k] = tx.pre[k]
    /\ Done({"Transfer"}) /\ tx.result = "Ok"
          => /\ Len(After) = Len(Before)
             /\ \A i \in 1..Len(After) : (i <= 32 \/ i > 64) => After[i] = Before[i]
             /\ OwnerField(After) = Request.new_owner
             /\ \A k \in Slots \ {Target} : store[k] = tx.pre[k]

\* A successful Update at a non-zero offset of a record whose owner was
\* changed by a Transfer since its Create.
C3_Witness ==
    /\ Done({"Update"}) /\ tx.result = "Ok"
    /\ Request.offset > 0 /\ Len(Request.data) > 0
    /\ After # Before
    /\ Target = ChildKey /\ OwnerField(After) = Bob /\ ParentField(After) = TopKey

\* C4 as stated: a Transfer on a record with a non-default class succeeds
\* only with the proofs of both the owner and the class; with the owner's
\* proof alone it is rejected with Unauthorized and changes nothing; and a
\* Transfer built by the transfer builder for such a record carries the class
\* account as a signer.
C4_ClassCoSigns ==
    /\ OnRecord({"Transfer"})
    /\ OwnerField(Before) # DefaultPubkey /\ ClassField(Before) # DefaultPubkey
    => /\ tx.result = "Ok" => OwnerProof /\ ProofFrom(ClassField(Before))
       /\ OwnerProof /\ ~ProofFrom(ClassField(Before))
             => tx.result = "Unauthorized" /\ store = tx.pre
       /\ tx.via = "builder" => ProofFrom(ClassField(Before))

\* C6: a successful Delete leaves every byte of the record zero and the
\* record uninitialized; a record is initialized exactly when its owner field
\* is not the all-zero address; an Update, Transfer or Delete on an
\* uninitialized record is rejected and changes nothing.
C6_DeletedIsUninitialized ==
    /\ Done({"Delete"}) /\ tx.result = "Ok"
          => /\ HoldsHeader(Before) /\ OwnerField(Before) # DefaultPubkey
             /\ After = Zeros(Len(Before))
             /\ load_header(After).ok /\ ~is_initialized(load_header(After).header)
    /\ \A k \in Slots :
          HoldsHeader(store[k])
              => /\ load_header(store[k]).ok
                 /\ is_initialized(load_header(store[k]).header)
                        <=> OwnerField(store[k]) # DefaultPubkey
    /\ OnRecord({"Update", "Transfer", "Delete"}) /\ OwnerField(Before) = DefaultPubkey
          => tx.result # "Ok" /\ store = tx.pre

\* A record with data was deleted by its owner.
C6_Witness ==
    /\ Done({"Delete"}) /\ tx.result = "Ok"
    /\ Len(Before) > HeaderLen /\ Before[HeaderLen + 1] # 0
    /\ After = Zeros(Len(Before))

\* A request on a deleted record (zeroed storage) was rejected.
C6_WitnessLater ==
    /\ OnRecord({"Update", "Transfer", "Delete"})
    /\ Before = Zeros(Len(Before))
    /\ (OwnerProof \/ \E k \in People : ProofFrom(k))
    /\ tx.result # "Ok"

\* C5 as stated: the create builder builds an instruction only when the
\* parent record and the parent owner are both supplied or both absent, and
\* refuses otherwise; in a built instruction the funding account is a signer,
\* the class account is a signer iff a class was supplied, and the parent
\* owner is a signer iff a parent was supplied.
C5_CreateValidates ==
    out.call = "create"
        => /\ out.r.ok <=> (IsSome(out.parent_opt) <=> IsSome(out.parent_owner_opt))
           /\ out.r.ok
                 => /\ out.r.ix.accounts[2].pubkey = out.payer
                    /\ out.r.ix.accounts[2].is_signer
                    /\ out.r.ix.accounts[5].is_signer <=> IsSome(out.class_opt)
                    /\ out.r.ix.accounts[7].is_signer <=> IsSome(out.parent_opt)

\* C7: packing a header writes exactly 96 bytes, parent_name at 0..32, owner
\* at 32..64 and class at 64..96, and unpacking those bytes returns the header.
C7_HeaderRoundTrip ==
    out.call = "pack" /\ ~out.packed.panic
        => /\ Len(out.packed.dst) = out.dst_len
           /\ SubSeq(out.packed.dst, 1, 32) = out.h.parent_name
           /\ SubSeq(out.packed.dst, 33, 64) = out.h.owner
           /\ SubSeq(out.packed.dst, 65, 96) = out.h.class
           /\ \A i \in 97..out.dst_len : out.packed.dst[i] = 9
           /\ out.unpacked.ok /\ out.unpacked.header = out.h

\* A header of three different addresses was packed into a buffer longer
\* than the header and unpacked.
C7_Witness ==
    /\ out.call = "pack" /\ ~out.packed.panic /\ out.unpacked.ok
    /\ out.dst_len > HeaderLen
    /\ Cardinality({out.h.parent_name, out.h.owner, out.h.class}) = 3

\* An absent class or parent reads as the all-zero address.
OrDefault(opt) == IF opt = None THEN DefaultPubkey ELSE opt[1]
SameTriple(a, b) == a[1] = b[1] /\ OrDefault(a[2]) = OrDefault(b[2]) /\ OrDefault(a[3]) = OrDefault(b[3])

\* C8: get_seeds_and_key returns hashed_name, the 32-byte class, the 32-byte
\* parent and the winning nonce byte as the seed bytes (absent class or parent
\* as the all-zero address), and the address that nonce derives; two calls
\* with the same inputs, None and Some(all-zero) counted the same, return the
\* same address and seed bytes.
C8_DeriveDeterministic ==
    out.call = "derive"
        => /\ ~out.r.panic
           /\ LET hn == out.args[1]
                  seeds == out.r.seeds
                  n == Len(hn)
                  nonce == seeds[n + 65]
                  at(b) == create_program_address(
                               Append(chunks(SubSeq(seeds, 1, n + 64)), <<b>>), ProgramId)
              IN  /\ Len(seeds) = n + 65
                  /\ SubSeq(seeds, 1, n) = hn
                  /\ SubSeq(seeds, n + 1, n + 32) = OrDefault(out.args[2])
                  /\ SubSeq(seeds, n + 33, n + 64) = OrDefault(out.args[3])
                  /\ at(nonce).ok /\ at(nonce).key = out.r.key
                  /\ \A b \in (nonce + 1)..255 : ~at(b).ok
           /\ IsSome(out.prev) /\ SameTriple(out.prev[1].args, out.args)
                 => out.prev[1].r = out.r

\* Two calls, one with an absent class and one with the all-zero class, gave
\* the same result; the class and the parent of the call differ.
C8_Witness ==
    /\ out.call = "derive" /\ IsSome(out.prev)
    /\ out.args[2] = None /\ out.prev[1].args[2] = Some(DefaultPubkey)
    /\ out.args[3] = Some(ClassKey)
    /\ SameTriple(out.prev[1].args, out.args)
    /\ out.prev[1].r = out.r /\ ~out.r.panic

\* C9: decoding the encoding of an operation returns the operation (also for
\* the data of an instruction built by the update builder), and bytes whose
\* tag is none of the four variants' tags fail to decode.
C9_InstructionRoundTrip ==
    /\ out.call = "codec" => out.decoded.ok /\ out.decoded.op = out.op
    /\ out.call = "update"
          => /\ try_from_slice(out.r.ix.data).ok
             /\ try_from_slice(out.r.ix.data).op = Update(out.offset, out.data)
    /\ out.call = "decode" => out.bytes[1] \notin 0..3 /\ ~out.decoded.ok

\* A Create with a name and a deposit of more than two bytes was encoded and
\* decoded.
C9_Witness ==
    /\ out.call = "codec" /\ out.op.tag = "Create"
    /\ Len(out.op.hashed_name) > 0 /\ out.op.lamports > 65535 /\ out.op.space > 255
    /\ out.decoded.ok

\* C10 as stated: in every instruction a builder produces, the name record
\* account is writable and is not marked as a signer.
C10_NameRecordNeverSigns ==
    out.call \in {"create", "update", "transfer", "delete"} /\ out.r.ok
        => /\ \E i \in 1..Len(out.r.ix.accounts) : out.r.ix.accounts[i].pubkey = out.name
           /\ \A i \in 1..Len(out.r.ix.accounts) :
                 out.r.ix.accounts[i].pubkey = out.name
                     => out.r.ix.accounts[i].is_writable /\ ~out.r.ix.accounts[i].is_signer

====
